---- MODULE Spec2Model ----
(***************************************************************************)
(* Model of fastapi-rest-graphql.py: a FastAPI application over a SQLite   *)
(* store with two tables (users, posts), four REST routes (/register,      *)
(* /login, GET /posts, POST /posts) and one GraphQL query (posts).         *)
(*                                                                         *)
(* A request is a small process: a session is opened for it (get_db or     *)
(* get_context), its handler runs as one database transaction, and the     *)
(* REST routes then run the teardown of get_db.  Handlers are plain `def`  *)
(* functions, which FastAPI runs on a thread pool, so requests interleave  *)
(* between these steps.                                                    *)
(***************************************************************************)
EXTENDS Integers, Sequences, FiniteSets, TLC

\* ------------------------------------------------------------------ bounds

MaxPosts == 2
MaxTime == 2
NumSalts == 2

Requests == {"r1", "r2"}
Usernames == {"alice", "bob"}
Passwords == {"pw1", "pw2"}
Titles == {"T", "U"}
Contents == {"C"}
Salts == 1..NumSalts
OwnerIds == 1..(Cardinality(Usernames) + 1)

\* --------------------------------------------------------- configuration

SECRET_KEY == "secret"
ALGORITHM == "HS256"
ACCESS_TOKEN_EXPIRE_MINUTES == 30

VARIABLES
    users,      \* table users: sequence of rows, in insertion order
    posts,      \* table posts: sequence of rows, in insertion order
    now,        \* datetime.utcnow(), in minutes
    pc,         \* position of each request
    session,    \* the SessionLocal() of each request: "none" or "open"
    call,       \* route and arguments of each request
    response,   \* what each request's handler returned or raised
    tok         \* last direct call of create_access_token and its result

vars == <<users, posts, now, pc, session, call, response, tok>>

NoCall == [route |-> "none"]
NoResponse == [status |-> 0, raised |-> "none", body |-> [none |-> TRUE]]
NoIssue == [called |-> FALSE]

\* ------------------------------------------------------ credential store

\* pwd_context.hash: bcrypt with a fresh salt; the digest depends on the
\* salt and the password and is not the password.
get_password_hash(password, salt) ==
    [scheme |-> "bcrypt", salt |-> salt, digest |-> <<salt, password>>]

\* pwd_context.verify: hash the plaintext with the salt embedded in the
\* stored hash and compare.
verify_password(plain_password, hashed_password) ==
    get_password_hash(plain_password, hashed_password.salt) = hashed_password

\* ----------------------------------------------------------- token issuer

\* jwt.encode: the claims signed with the key under the algorithm.
jwt_encode(claims, key, algorithm) ==
    [alg |-> algorithm, key |-> key, claims |-> claims]

create_access_token_no_copy(data, expires_delta, utcnow) ==
    LET expire == utcnow + expires_delta
        to_encode == [k \in DOMAIN data \cup {"exp"} |->
                         IF k = "exp" THEN expire ELSE data[k]]
    IN  [token |-> jwt_encode(to_encode, SECRET_KEY, ALGORITHM),
         data |-> to_encode]

\* The returned record carries the token and the caller's mapping as it is
\* after the call (data.copy() leaves it alone).
create_access_token(data, expires_delta, utcnow) ==
    LET expire == utcnow + expires_delta
        to_encode == [k \in DOMAIN data \cup {"exp"} |->
                         IF k = "exp" THEN expire ELSE data[k]]
    IN  [token |-> jwt_encode(to_encode, SECRET_KEY, ALGORITHM),
         data |-> data]

\* ----------------------------------------------------------- entity layer

\* Integer primary key of SQLite: one more than the largest key in use.
RECURSIVE MaxId(_)
MaxId(tbl) ==
    IF tbl = <<>> THEN 0
    ELSE LET m == MaxId(Tail(tbl))
         IN  IF Head(tbl).id > m THEN Head(tbl).id ELSE m

NextId(tbl) == MaxId(tbl) + 1

User(id, username, hashed_password) ==
    [id |-> id, username |-> username, hashed_password |-> hashed_password]

Post(id, title, content, owner_id) ==
    [id |-> id, title |-> title, content |-> content, owner_id |-> owner_id]

\* db.query(User).filter(User.username == username).first()
RECURSIVE first_user(_, _)
first_user(tbl, username) ==
    IF tbl = <<>> THEN [found |-> FALSE]
    ELSE IF Head(tbl).username = username
         THEN [found |-> TRUE, user |-> Head(tbl)]
         ELSE first_user(Tail(tbl), username)

commit_user_no_unique(tbl, username, hashed_password) ==
    [ok |-> TRUE,
     table |-> Append(tbl, User(NextId(tbl), username, hashed_password))]

commit_user_upsert(tbl, username, hashed_password) ==
    IF \E i \in 1..Len(tbl) : tbl[i].username = username
    THEN [ok |-> FALSE,
          table |-> [i \in 1..Len(tbl) |->
                        IF tbl[i].username = username
                        THEN User(tbl[i].id, username, hashed_password)
                        ELSE tbl[i]]]
    ELSE [ok |-> TRUE,
          table |-> Append(tbl, User(NextId(tbl), username, hashed_password))]

\* db.add(user); db.commit(): one INSERT in one transaction.  The unique
\* index on users.username rejects a second row of the same name
\* (IntegrityError) and the table is left as it was.
commit_user(tbl, username, hashed_password) ==
    IF \E i \in 1..Len(tbl) : tbl[i].username = username
    THEN [ok |-> FALSE, table |-> tbl]
    ELSE [ok |-> TRUE,
          table |-> Append(tbl, User(NextId(tbl), username, hashed_password))]

register_response(ok) ==
    IF ok
    THEN [status |-> 200, raised |-> "none",
          body |-> [message |-> "User created"]]
    ELSE [status |-> 500, raised |-> "IntegrityError",
          body |-> [detail |-> "Internal Server Error"]]

InvalidCredentials ==
    [status |-> 400, raised |-> "HTTPException",
     body |-> [detail |-> "Invalid credentials"]]

login_response_distinguishing(tbl, username, password, utcnow) ==
    LET q == first_user(tbl, username)
    IN  IF ~q.found
        THEN [status |-> 404, raised |-> "HTTPException",
              body |-> [detail |-> "User not found"]]
        ELSE IF ~verify_password(password, q.user.hashed_password)
        THEN InvalidCredentials
        ELSE [status |-> 200, raised |-> "none",
              body |-> [access_token |->
                            create_access_token([sub |-> q.user.username],
                                ACCESS_TOKEN_EXPIRE_MINUTES, utcnow).token,
                        token_type |-> "bearer"]]

login_response_unverified(tbl, username, password, utcnow) ==
    LET q == first_user(tbl, username)
    IN  IF ~q.found
        THEN InvalidCredentials
        ELSE [status |-> 200, raised |-> "none",
              body |-> [access_token |->
                            create_access_token([sub |-> q.user.username],
                                ACCESS_TOKEN_EXPIRE_MINUTES, utcnow).token,
                        token_type |-> "bearer"]]

\* The body of login: look the user up, verify, issue the token.
login_response(tbl, username, password, utcnow) ==
    LET q == first_user(tbl, username)
    IN  IF ~q.found \/ ~verify_password(password, q.user.hashed_password)
        THEN InvalidCredentials
        ELSE [status |-> 200, raised |-> "none",
              body |-> [access_token |->
                            create_access_token([sub |-> q.user.username],
                                ACCESS_TOKEN_EXPIRE_MINUTES, utcnow).token,
                        token_type |-> "bearer"]]

\* ------------------------------------------------------------------ state

\* test.db outlives the process: the tables found at start are those an
\* earlier run's requests left.
PersistedUsers ==
    {<<>>,
     <<User(1, "alice", get_password_hash("pw1", 1))>>,
     <<User(1, "alice", get_password_hash("pw1", 1)),
       User(2, "bob", get_password_hash("pw2", 1))>>}

Init ==
    /\ users \in PersistedUsers
    /\ posts = <<>>
    /\ now = 0
    /\ pc = [r \in Requests |-> "idle"]
    /\ session = [r \in Requests |-> "none"]
    /\ call = [r \in Requests |-> NoCall]
    /\ response = [r \in Requests |-> NoResponse]
    /\ tok = NoIssue

\* The clock advances between any two steps.
Tick ==
    /\ now < MaxTime
    /\ now' = now + 1
    /\ UNCHANGED <<users, posts, pc, session, call, response, tok>>

RegisterCalls ==
    {[route |-> "register", username |-> u, password |-> p] :
        u \in Usernames, p \in Passwords}

LoginCalls ==
    {[route |-> "login", username |-> u, password |-> p] :
        u \in Usernames, p \in Passwords}

\* A REST request arrives: Depends(get_db) opens its session and yields it.
get_db(r, c) ==
    /\ pc[r] = "idle"
    /\ pc' = [pc EXCEPT ![r] = "handler"]
    /\ session' = [session EXCEPT ![r] = "open"]
    /\ call' = [call EXCEPT ![r] = c]
    /\ response' = [response EXCEPT ![r] = NoResponse]
    /\ UNCHANGED <<users, posts, now, tok>>

\* The finally of get_db, run when the request ends, whether the handler
\* returned or raised.
get_db_close(r) ==
    /\ pc[r] = "teardown"
    /\ pc' = [pc EXCEPT ![r] = "idle"]
    /\ session' = [session EXCEPT ![r] = "none"]
    /\ call' = [call EXCEPT ![r] = NoCall]
    /\ response' = [response EXCEPT ![r] = NoResponse]
    /\ UNCHANGED <<users, posts, now, tok>>

register(r) ==
    /\ pc[r] = "handler"
    /\ call[r].route = "register"
    /\ \E salt \in Salts :
          LET hashed_password == get_password_hash(call[r].password, salt)
              res == commit_user(users, call[r].username, hashed_password)
          IN  /\ users' = res.table
              /\ response' = [response EXCEPT ![r] = register_response(res.ok)]
    /\ pc' = [pc EXCEPT ![r] = "teardown"]
    /\ UNCHANGED <<posts, now, session, call, tok>>

login(r) ==
    /\ pc[r] = "handler"
    /\ call[r].route = "login"
    /\ response' = [response EXCEPT ![r] =
          login_response(users, call[r].username, call[r].password, now)]
    /\ pc' = [pc EXCEPT ![r] = "teardown"]
    /\ UNCHANGED <<users, posts, now, session, call, tok>>

\* ------------------------------------------------------------------ posts

\* db.add(post); db.commit(): one INSERT.  posts.owner_id is declared a
\* foreign key, but the engine is created on SQLite with no foreign_keys
\* pragma, so SQLite does not check it and the insert always succeeds.
commit_post(tbl, title, content, owner_id) ==
    [ok |-> TRUE,
     table |-> Append(tbl, Post(NextId(tbl), title, content, owner_id))]

\* POST /posts declares no response_model: the refreshed row is returned
\* with all its columns.
create_post_response(res) ==
    IF res.ok
    THEN [status |-> 200, raised |-> "none",
          body |-> res.table[Len(res.table)]]
    ELSE [status |-> 500, raised |-> "IntegrityError",
          body |-> [detail |-> "Internal Server Error"]]

\* response_model=List[PostResponse] with orm_mode: each row is read into
\* the three declared fields.
PostResponse(post) ==
    [id |-> post.id, title |-> post.title, content |-> post.content]

get_posts_response_first(tbl) ==
    [status |-> 200, raised |-> "none",
     body |-> [i \in 1..(IF Len(tbl) > 1 THEN 1 ELSE Len(tbl)) |->
                  PostResponse(tbl[i])]]

\* db.query(Post).all(), serialised through the response model.
get_posts_response(tbl) ==
    [status |-> 200, raised |-> "none",
     body |-> [i \in 1..Len(tbl) |-> PostResponse(tbl[i])]]

PostTypeFields == {"id", "title", "content", "owner_id"}

\* The generated constructor of the strawberry type: every declared field
\* is a required keyword argument.
PostType(kwargs) ==
    IF PostTypeFields \subseteq DOMAIN kwargs
    THEN [ok |-> TRUE, value |-> kwargs]
    ELSE [ok |-> FALSE, raised |-> "TypeError"]

\* Query.posts: one PostType per row, built from id, title and content.
\* An exception in the resolver is reported in the GraphQL errors.
Query_posts_response(tbl) ==
    LET made == [i \in 1..Len(tbl) |->
                    PostType([id |-> tbl[i].id, title |-> tbl[i].title,
                              content |-> tbl[i].content])]
    IN  IF \A i \in 1..Len(tbl) : made[i].ok
        THEN [status |-> 200, raised |-> "none",
              body |-> [posts |-> [i \in 1..Len(tbl) |-> made[i].value]]]
        ELSE [status |-> 200, raised |-> "TypeError",
              body |-> [errors |-> <<"TypeError">>]]

GetPostsCalls == {[route |-> "get_posts"]}

CreatePostCalls ==
    {[route |-> "create_post", title |-> t, content |-> c, owner_id |-> o] :
        t \in Titles, c \in Contents, o \in OwnerIds}

get_posts(r) ==
    /\ pc[r] = "handler"
    /\ call[r].route = "get_posts"
    /\ response' = [response EXCEPT ![r] = get_posts_response(posts)]
    /\ pc' = [pc EXCEPT ![r] = "teardown"]
    /\ UNCHANGED <<users, posts, now, session, call, tok>>

create_post(r) ==
    /\ pc[r] = "handler"
    /\ call[r].route = "create_post"
    /\ Len(posts) < MaxPosts
    /\ LET res == commit_post(posts, call[r].title, call[r].content,
                              call[r].owner_id)
       IN  /\ posts' = res.table
           /\ response' = [response EXCEPT ![r] = create_post_response(res)]
    /\ pc' = [pc EXCEPT ![r] = "teardown"]
    /\ UNCHANGED <<users, now, session, call, tok>>

\* A GraphQL request arrives: the context getter opens a session and
\* returns it in a dict; nothing closes it.
get_context(r) ==
    /\ pc[r] = "idle"
    /\ session[r] = "none"
    /\ pc' = [pc EXCEPT ![r] = "handler"]
    /\ session' = [session EXCEPT ![r] = "open"]
    /\ call' = [call EXCEPT ![r] = [route |-> "graphql"]]
    /\ response' = [response EXCEPT ![r] = NoResponse]
    /\ UNCHANGED <<users, posts, now, tok>>

\* The resolver runs and the GraphQL request ends.
Query_posts(r) ==
    /\ pc[r] = "handler"
    /\ call[r].route = "graphql"
    /\ response' = [response EXCEPT ![r] = Query_posts_response(posts)]
    /\ pc' = [pc EXCEPT ![r] = "done"]
    /\ UNCHANGED <<users, posts, now, session, call, tok>>

\* ----------------------------------------------------------- direct issue

EmptyClaims == [k \in {} |-> 0]

ClaimMaps ==
    {EmptyClaims} \cup {[sub |-> u] : u \in Usernames}
                  \cup {[sub |-> u, exp |-> 0] : u \in Usernames}

Ttls == {0, 1, ACCESS_TOKEN_EXPIRE_MINUTES}

\* create_access_token applied to a mapping and a lifetime at the current
\* time; the call and its result are kept.
issue(data, ttl) ==
    /\ tok' = [called |-> TRUE, data |-> data, ttl |-> ttl, at |-> now,
               result |-> create_access_token(data, ttl, now)]
    /\ UNCHANGED <<users, posts, now, pc, session, call, response>>

\* -------------------------------------------------------- specifications

NextAuth ==
    \/ Tick
    \/ \E r \in Requests, c \in RegisterCalls \cup LoginCalls : get_db(r, c)
    \/ \E r \in Requests : register(r)
    \/ \E r \in Requests : login(r)
    \/ \E r \in Requests : get_db_close(r)

SpecAuth == Init /\ [][NextAuth]_vars

NextPosts ==
    \/ \E r \in Requests, c \in GetPostsCalls \cup CreatePostCalls : get_db(r, c)
    \/ \E r \in Requests : get_posts(r)
    \/ \E r \in Requests : create_post(r)
    \/ \E r \in Requests : get_context(r)
    \/ \E r \in Requests : Query_posts(r)
    \/ \E r \in Requests : get_db_close(r)

SpecPosts == Init /\ [][NextPosts]_vars

NextToken ==
    \/ Tick
    \/ \E data \in ClaimMaps, ttl \in Ttls : issue(data, ttl)
    \/ \E r \in Requests, c \in LoginCalls : get_db(r, c)
    \/ \E r \in Requests : login(r)
    \/ \E r \in Requests : get_db_close(r)

SpecToken == Init /\ [][NextToken]_vars

\* ----------------------------------------------------------------- claims

\* Steps of the handlers, as seen from outside.
Handled(r, route) ==
    /\ pc[r] = "handler"
    /\ call[r].route = route
    /\ pc'[r] # "handler"

Answered(r, route) ==
    /\ pc[r] \in {"teardown", "done"}
    /\ call[r].route = route

\* The row's hash is a hash of this password, under some salt.
RegisteredWith(row, password) ==
    \E salt \in Salts : row.hashed_password = get_password_hash(password, salt)

RowsNamed(tbl, username) ==
    {i \in 1..Len(tbl) : tbl[i].username = username}

\* C1: a register for a username that already has a row fails with the
\* store's IntegrityError and leaves the table as it was, with exactly one
\* row of that name; a register that succeeds appends one row holding a
\* hash of its password, and no step ever changes or removes a stored row,
\* so the row still holds the hash of the first password.
C1_DuplicateRegisterFails ==
    [][/\ \A i \in 1..Len(users) : i <= Len(users') /\ users'[i] = users[i]
       /\ \A r \in Requests :
             Handled(r, "register") =>
                IF RowsNamed(users, call[r].username) # {}
                THEN /\ response'[r].raised = "IntegrityError"
                     /\ response'[r].status # 200
                     /\ users' = users
                     /\ Cardinality(RowsNamed(users', call[r].username)) = 1
                ELSE /\ response'[r].status = 200
                     /\ Len(users') = Len(users) + 1
                     /\ users'[Len(users')].username = call[r].username
                     /\ RegisteredWith(users'[Len(users')], call[r].password)
      ]_vars

\* C1 witness: a second register of a registered name, with another
\* password, has been rejected and the row still holds the first hash.
C1_Witness ==
    \E r \in Requests : \E i \in 1..Len(users) :
        /\ Answered(r, "register")
        /\ response[r].raised = "IntegrityError"
        /\ users[i].username = call[r].username
        /\ ~RegisteredWith(users[i], call[r].password)
        /\ Cardinality(RowsNamed(users, call[r].username)) = 1

\* C3: login succeeds exactly when a row of that username exists whose
\* hash is a hash of the given password; then the token's sub is the
\* username, and otherwise the answer is the 400 and carries no token.
C3_LoginIffRegisteredPassword ==
    [][\A r \in Requests :
          Handled(r, "login") =>
             LET ok == \E i \in 1..Len(users) :
                          /\ users[i].username = call[r].username
                          /\ RegisteredWith(users[i], call[r].password)
             IN  /\ (response'[r].status = 200) <=> ok
                 /\ ok => /\ response'[r].raised = "none"
                          /\ response'[r].body.access_token.claims.sub
                                = call[r].username
                 /\ ~ok => /\ response'[r] = InvalidCredentials
                           /\ "access_token" \notin DOMAIN response'[r].body
      ]_vars

\* C3 witness: a login with the registered password has been answered with
\* a token for that username.
C3_Witness ==
    \E r \in Requests : \E i \in 1..Len(users) :
        /\ Answered(r, "login")
        /\ users[i].username = call[r].username
        /\ RegisteredWith(users[i], call[r].password)
        /\ response[r].status = 200
        /\ response[r].body.access_token.claims.sub = call[r].username

WithoutUser(tbl, username) ==
    SelectSeq(tbl, LAMBDA row : row.username # username)

\* C4: a failed login's answer is the answer the same login gets from the
\* store without that username, and the answer it gets from the store where
\* that username is registered with any other password.
C4_FailureIndistinguishable ==
    \A r \in Requests :
        (Answered(r, "login") /\ response[r].status # 200) =>
            LET u == call[r].username
                p == call[r].password
                absent == WithoutUser(users, u)
            IN  /\ response[r] = login_response(absent, u, p, now)
                /\ \A other \in Passwords \ {p} : \A salt \in Salts :
                      response[r] =
                         login_response(
                            Append(absent,
                                   User(NextId(absent), u,
                                        get_password_hash(other, salt))),
                            u, p, now)

\* C4 witness: two failed logins are in hand, one for a registered name
\* with the wrong password and one for a name that is not registered.
C4_Witness ==
    \E r1, r2 \in Requests :
        /\ Answered(r1, "login") /\ response[r1].status # 200
        /\ Answered(r2, "login") /\ response[r2].status # 200
        /\ RowsNamed(users, call[r1].username) # {}
        /\ RowsNamed(users, call[r2].username) = {}
        /\ response[r1] = response[r2]

\* C7: no two rows of users share a username or an id, and of two register
\* requests for one username that are in flight together at most one has
\* succeeded.
C7_UniqueUsers ==
    /\ \A i, j \in 1..Len(users) :
          i # j => /\ users[i].username # users[j].username
                   /\ users[i].id # users[j].id
    /\ \A r1, r2 \in Requests :
          (/\ r1 # r2
           /\ Answered(r1, "register") /\ Answered(r2, "register")
           /\ call[r1].username = call[r2].username)
          => ~(response[r1].status = 200 /\ response[r2].status = 200)

\* C7 witness: two registers of one username were in flight together; one
\* committed and the other was rejected.
C7_Witness ==
    \E r1, r2 \in Requests :
        /\ r1 # r2
        /\ Answered(r1, "register") /\ Answered(r2, "register")
        /\ call[r1].username = call[r2].username
        /\ response[r1].status = 200
        /\ response[r2].raised = "IntegrityError"
        /\ session[r1] = "open" /\ session[r2] = "open"

SameMapping(a, b) ==
    /\ DOMAIN a = DOMAIN b
    /\ \A k \in DOMAIN a : a[k] = b[k]

\* C8: the token's claims are the input mapping with exp set to the time of
\* the call plus the lifetime, the caller's mapping is as it was, and the
\* token of a login carries sub = username and exp = time of the login
\* plus 30 minutes.
C8_TokenClaims ==
    [][/\ tok'.called =>
             /\ DOMAIN tok'.result.token.claims = DOMAIN tok'.data \cup {"exp"}
             /\ tok'.result.token.claims["exp"] = tok'.at + tok'.ttl
             /\ \A k \in DOMAIN tok'.data \ {"exp"} :
                   tok'.result.token.claims[k] = tok'.data[k]
             /\ SameMapping(tok'.result.data, tok'.data)
       /\ \A r \in Requests :
             (Handled(r, "login") /\ response'[r].status = 200) =>
                /\ DOMAIN response'[r].body.access_token.claims = {"sub", "exp"}
                /\ response'[r].body.access_token.claims["sub"] = call[r].username
                /\ response'[r].body.access_token.claims["exp"] = now + 30
      ]_vars

\* C8 witness: a mapping with a subject has been issued for 30 minutes
\* after the clock moved, and a login has been answered with a token.
C8_Witness ==
    /\ tok.called
    /\ "sub" \in DOMAIN tok.data
    /\ tok.ttl = 30
    /\ tok.at > 0
    /\ tok.result.token.claims["exp"] = tok.at + 30
    /\ \E r \in Requests :
          /\ Answered(r, "login")
          /\ response[r].status = 200

\* C2: every stored post's owner_id is the id of a stored user, and a
\* create_post whose owner_id is no user's id was answered with the
\* store's IntegrityError.
C2_OwnerExists ==
    /\ \A i \in 1..Len(posts) :
          \E j \in 1..Len(users) : users[j].id = posts[i].owner_id
    /\ \A r \in Requests :
          (/\ Answered(r, "create_post")
           /\ \A j \in 1..Len(users) : users[j].id # call[r].owner_id)
          => response[r].raised = "IntegrityError"

\* C5: once no request is in flight, no session a request opened is open.
C5_SessionsReleased ==
    (\A r \in Requests : pc[r] \in {"idle", "done"})
    => \A r \in Requests : session[r] # "open"

\* C9: a register that succeeded is answered with the id of a stored row
\* of that username whose hash is a hash of the password.
C9_RegisterReturnsId ==
    \A r \in Requests :
        (Answered(r, "register") /\ response[r].status = 200) =>
            /\ Cardinality(RowsNamed(users, call[r].username)) = 1
            /\ "id" \in DOMAIN response[r].body
            /\ \E i \in 1..Len(users) :
                  /\ users[i].username = call[r].username
                  /\ RegisteredWith(users[i], call[r].password)
                  /\ response[r].body.id = users[i].id

IdTitleContent(rows) ==
    {[id |-> rows[i].id, title |-> rows[i].title, content |-> rows[i].content] :
        i \in 1..Len(rows)}

\* C10: in every state the GraphQL posts query succeeds on the stored
\* posts and returns the posts that GET /posts returns, by id, title and
\* content.
C10_GraphQLMatchesRest ==
    LET g == Query_posts_response(posts)
        q == get_posts_response(posts)
    IN  /\ g.raised = "none"
        /\ q.raised = "none"
        /\ IdTitleContent(g.body.posts) = IdTitleContent(q.body)

HasOwner(entry, owner_id) ==
    /\ "owner_id" \in DOMAIN entry
    /\ entry.owner_id = owner_id

\* C6 as stated: a GET /posts lists, for every stored post of an existing
\* user, an entry with its title, its content and its owner.
C6_ListCarriesOwner ==
    [][\A r \in Requests :
          Handled(r, "get_posts") =>
             \A i \in 1..Len(posts) :
                (\E j \in 1..Len(users) : users[j].id = posts[i].owner_id) =>
                   \E k \in 1..Len(response'[r].body) :
                      /\ response'[r].body[k].title = posts[i].title
                      /\ response'[r].body[k].content = posts[i].content
                      /\ HasOwner(response'[r].body[k], posts[i].owner_id)
      ]_vars

\* C6 amended: a create_post that succeeds stores one row with its title,
\* content and owner under the id it returns; no step changes or removes a
\* stored post; and a GET /posts returns one entry per stored post, in
\* order, with that post's id, title and content and no other field.
C6_ListHasEveryPost ==
    [][/\ \A i \in 1..Len(posts) : i <= Len(posts') /\ posts'[i] = posts[i]
       /\ \A r \in Requests :
             (Handled(r, "create_post") /\ response'[r].status = 200) =>
                /\ Len(posts') = Len(posts) + 1
                /\ posts'[Len(posts')] =
                      Post(response'[r].body.id, call[r].title,
                           call[r].content, call[r].owner_id)
       /\ \A r \in Requests :
             Handled(r, "get_posts") =>
                /\ response'[r].status = 200
                /\ Len(response'[r].body) = Len(posts)
                /\ \A i \in 1..Len(posts) :
                      response'[r].body[i] =
                         [id |-> posts[i].id, title |-> posts[i].title,
                          content |-> posts[i].content]
      ]_vars

\* C6 witness: two posts of an existing user are stored and a GET /posts
\* has been answered with both.
C6_Witness ==
    \E r \in Requests :
        /\ Answered(r, "get_posts")
        /\ Len(posts) = 2
        /\ Len(response[r].body) = 2
        /\ \A i \in 1..2 :
              /\ \E j \in 1..Len(users) : users[j].id = posts[i].owner_id
              /\ response[r].body[i].id = posts[i].id

====
